---- MODULE Spec2Model ----
(***************************************************************************)
(* Control flow of main(config) in week09/main.py: the BERT NER training   *)
(* driver.  The model, optimizer, loader and evaluator are collaborators   *)
(* whose code is elsewhere; the driver's calls into them are recorded, in  *)
(* program order, in the history variable `events`.                        *)
(***************************************************************************)
EXTENDS Integers, Sequences, FiniteSets, TLC

\* ------------------------------------------------------------------ bounds
MaxEpoch == 2
MaxBatches == 4

\* Scalar loss values a forward pass may return.
Losses == {1, 2}
\* Values of config["model_path"].
ModelPaths == {"out", "model_output"}
\* Model parameters right after TorchModel(config).
InitParams == 0

VARIABLES
    pc,             \* position of main: the statement about to run
    config,         \* the mapping main was called with
    arg_config,     \* what the caller passed (never written after Init)
    total_batches,  \* len(train_data)
    it,             \* iterations of `for epoch in range(...)` begun
    epoch,          \* the local `epoch` (after epoch += 1)
    yielded,        \* batches enumerate(train_data) has yielded this epoch
    index,          \* the local `index`
    train_loss,     \* the list train_loss
    loss,           \* loss.item() of the current batch
    grad,           \* the parameters' accumulated .grad
    params,         \* model parameters (model.state_dict())
    training,       \* model.training
    saved,          \* the torch.save calls made: <<[path, obj]>>
    error,          \* the exception that left main, or "none"
    produced,       \* history: the losses this epoch's forward passes returned
    stepped_params, \* history: the parameters as the last optimizer.step left them
    events          \* history: the calls main made, in order

vars == <<pc, config, arg_config, total_batches, it, epoch, yielded, index,
          train_loss, loss, grad, params, training, saved, error, produced,
          stepped_params, events>>

\* ----------------------------------------------------------------- helpers
RECURSIVE Sum(_)
Sum(s) == IF s = <<>> THEN 0 ELSE Head(s) + Sum(Tail(s))

\* The mean as the exact fraction num/den; of an empty list numpy gives nan.
NaN == [num |-> 0, den |-> 0]
np_mean(s) == IF Len(s) = 0 THEN NaN ELSE [num |-> Sum(s), den |-> Len(s)]

os_path_join(dir, name) == <<dir, name>>

\* Faulty variant of range_len: a loop that tests its bound after the body,
\* so the body runs once even for n = 0.
range_len_test_after(n) == IF n > 0 THEN n ELSE 1

\* range(n) has n iterations when n > 0 and none otherwise.
range_len(n) == IF n > 0 THEN n ELSE 0

\* int(len(train_data) / 2)
log_interval(n) == n \div 2

Event(op, arg) == [op |-> op, epoch |-> epoch, index |-> index, arg |-> arg]
Record(op, arg) == events' = Append(events, Event(op, arg))

\* -------------------------------------------------------------------- Init
Init ==
    /\ config \in [model_path : ModelPaths, epoch : 0..MaxEpoch]
    /\ arg_config = config
    /\ total_batches \in 0..MaxBatches
    /\ pc = "for_epoch"
    /\ it = 0
    /\ epoch = 0
    /\ yielded = 0
    /\ index = -1
    /\ train_loss = <<>>
    /\ loss = 0
    /\ grad = 0
    /\ params = InitParams
    /\ training = FALSE
    /\ saved = <<>>
    /\ error = "none"
    /\ produced = <<>>
    /\ stepped_params = InitParams
    /\ events = <<>>

\* ----------------------------------------------------------------- actions
\* Faulty variant of EpochBegin: train_loss = [] is missing, so the list
\* carries over from the epoch before.
EpochBeginNoReset ==
    /\ pc = "for_epoch"
    /\ it < range_len(config.epoch)
    /\ it' = it + 1
    /\ epoch' = it + 1
    /\ training' = TRUE
    /\ produced' = <<>>
    /\ yielded' = 0
    /\ index' = -1
    /\ events' = Append(events, [op |-> "info_epoch_begin", epoch |-> it + 1,
                                 index |-> -1, arg |-> it + 1])
    /\ pc' = "for_batch"
    /\ UNCHANGED <<config, arg_config, total_batches, loss, grad, params,
                   saved, error, stepped_params, train_loss>>

\* for epoch in range(config["epoch"]): epoch += 1; model.train();
\* logger.info("epoch %d begin"); train_loss = []
EpochBegin ==
    /\ pc = "for_epoch"
    /\ it < range_len(config.epoch)
    /\ it' = it + 1
    /\ epoch' = it + 1
    /\ training' = TRUE
    /\ train_loss' = <<>>
    /\ produced' = <<>>
    /\ yielded' = 0
    /\ index' = -1
    /\ events' = Append(events, [op |-> "info_epoch_begin", epoch |-> it + 1,
                                 index |-> -1, arg |-> it + 1])
    /\ pc' = "for_batch"
    /\ UNCHANGED <<config, arg_config, total_batches, loss, grad, params,
                   saved, error, stepped_params>>

\* the epoch loop is exhausted
LoopExit ==
    /\ pc = "for_epoch"
    /\ ~(it < range_len(config.epoch))
    /\ pc' = "save"
    /\ UNCHANGED <<config, arg_config, total_batches, it, epoch, yielded,
                   index, train_loss, loss, grad, params, training, saved,
                   error, produced, stepped_params, events>>

\* Faulty variant of NextBatch: every other batch is skipped.
NextBatchStride ==
    /\ pc = "for_batch"
    /\ yielded < total_batches
    /\ index' = IF yielded + 1 < total_batches THEN yielded + 1 ELSE yielded
    /\ yielded' = IF yielded + 1 < total_batches THEN yielded + 2
                                                ELSE yielded + 1
    /\ pc' = "zero_grad"
    /\ UNCHANGED <<config, arg_config, total_batches, it, epoch, train_loss,
                   loss, grad, params, training, saved, error, produced,
                   stepped_params, events>>

\* enumerate(train_data) yields the next batch
NextBatch ==
    /\ pc = "for_batch"
    /\ yielded < total_batches
    /\ index' = yielded
    /\ yielded' = yielded + 1
    /\ pc' = "zero_grad"
    /\ UNCHANGED <<config, arg_config, total_batches, it, epoch, train_loss,
                   loss, grad, params, training, saved, error, produced,
                   stepped_params, events>>

\* enumerate(train_data) is exhausted
BatchesDone ==
    /\ pc = "for_batch"
    /\ ~(yielded < total_batches)
    /\ pc' = "mean"
    /\ UNCHANGED <<config, arg_config, total_batches, it, epoch, yielded,
                   index, train_loss, loss, grad, params, training, saved,
                   error, produced, stepped_params, events>>

\* Faulty variant of ZeroGrad: the call clears nothing, so .grad keeps
\* the gradients of the batches before.
ZeroGradNoClear ==
    /\ pc = "zero_grad"
    /\ events' = Append(events, [op |-> "zero_grad", epoch |-> epoch,
                                 index |-> index, arg |-> 0])
    /\ pc' = "forward"
    /\ UNCHANGED <<config, arg_config, total_batches, it, epoch, yielded,
                   index, train_loss, loss, grad, params, training, saved,
                   error, produced, stepped_params>>

\* optimizer.zero_grad()
ZeroGrad ==
    /\ pc = "zero_grad"
    /\ grad' = 0
    /\ Record("zero_grad", 0)
    /\ pc' = "forward"
    /\ UNCHANGED <<config, arg_config, total_batches, it, epoch, yielded,
                   index, train_loss, loss, params, training, saved, error,
                   produced, stepped_params>>

\* an exception leaves main: nothing catches it
Raise(what) ==
    /\ error' = what
    /\ Record("raise", 0)
    /\ pc' = "raised"
    /\ UNCHANGED <<config, arg_config, total_batches, it, epoch, yielded,
                   index, train_loss, loss, grad, params, training, saved,
                   produced, stepped_params>>

\* loss = model(input_ids, attention_mask, labels)
Forward ==
    /\ pc = "forward"
    /\ \E l \in Losses :
          /\ loss' = l
          /\ produced' = Append(produced, l)
    /\ Record("forward", 0)
    /\ pc' = "backward"
    /\ UNCHANGED <<config, arg_config, total_batches, it, epoch, yielded,
                   index, train_loss, grad, params, training, saved, error,
                   stepped_params>>

\* Faulty variant of ForwardFail: the exception is caught and the loop
\* goes on with the next batch.
ForwardFailSwallowed ==
    /\ pc = "forward"
    /\ error' = "forward"
    /\ Record("raise", 0)
    /\ pc' = "for_batch"
    /\ UNCHANGED <<config, arg_config, total_batches, it, epoch, yielded,
                   index, train_loss, loss, grad, params, training, saved,
                   produced, stepped_params>>

ForwardFail ==
    /\ pc = "forward"
    /\ Raise("forward")

\* loss.backward(): adds this loss's gradient to .grad
Backward ==
    /\ pc = "backward"
    /\ grad' = grad + loss
    /\ Record("backward", 0)
    /\ pc' = "step"
    /\ UNCHANGED <<config, arg_config, total_batches, it, epoch, yielded,
                   index, train_loss, loss, params, training, saved, error,
                   produced, stepped_params>>

BackwardFail ==
    /\ pc = "backward"
    /\ Raise("backward")

\* optimizer.step(): updates the parameters from .grad
Step ==
    /\ pc = "step"
    /\ params' = params - grad
    /\ stepped_params' = params - grad
    /\ Record("step", 0)
    /\ pc' = "append"
    /\ UNCHANGED <<config, arg_config, total_batches, it, epoch, yielded,
                   index, train_loss, loss, grad, training, saved, error,
                   produced>>

StepFail ==
    /\ pc = "step"
    /\ Raise("step")

\* train_loss.append(loss.item())
AppendLoss ==
    /\ pc = "append"
    /\ train_loss' = Append(train_loss, loss)
    /\ Record("append", 0)
    /\ pc' = "log_check"
    /\ UNCHANGED <<config, arg_config, total_batches, it, epoch, yielded,
                   index, loss, grad, params, training, saved, error,
                   produced, stepped_params>>

\* if index % int(len(train_data) / 2) == 0: the modulus is zero
LogCheckZeroDivision ==
    /\ pc = "log_check"
    /\ log_interval(total_batches) = 0
    /\ Raise("ZeroDivisionError")

\* ... the condition holds: logger.info("batch loss %f")
LogBatchLoss ==
    /\ pc = "log_check"
    /\ log_interval(total_batches) # 0
    /\ index % log_interval(total_batches) = 0
    /\ Record("info_batch_loss", 0)
    /\ pc' = "for_batch"
    /\ UNCHANGED <<config, arg_config, total_batches, it, epoch, yielded,
                   index, train_loss, loss, grad, params, training, saved,
                   error, produced, stepped_params>>

\* ... the condition does not hold
LogSkip ==
    /\ pc = "log_check"
    /\ log_interval(total_batches) # 0
    /\ index % log_interval(total_batches) # 0
    /\ pc' = "for_batch"
    /\ UNCHANGED <<config, arg_config, total_batches, it, epoch, yielded,
                   index, train_loss, loss, grad, params, training, saved,
                   error, produced, stepped_params, events>>

\* logger.info("epoch average loss: %f" % np.mean(train_loss))
EpochMean ==
    /\ pc = "mean"
    /\ Record("info_average_loss", np_mean(train_loss))
    /\ pc' = "eval"
    /\ UNCHANGED <<config, arg_config, total_batches, it, epoch, yielded,
                   index, train_loss, loss, grad, params, training, saved,
                   error, produced, stepped_params>>

\* Evaluator.eval (evaluate.py) is a read-only pass over the model: the
\* parameters after it are the parameters before it.
evaluator_eval(p) == p

\* Faulty variant of Eval: epoch += 1 is missing, so eval gets the
\* 0-based loop variable.
EvalZeroBased ==
    /\ pc = "eval"
    /\ Record("eval", epoch - 1)
    /\ params' = evaluator_eval(params)
    /\ training' \in BOOLEAN
    /\ pc' = "for_epoch"
    /\ UNCHANGED <<config, arg_config, total_batches, it, epoch, yielded,
                   index, train_loss, loss, grad, saved, error, produced,
                   stepped_params>>

\* Faulty variant of Eval: the checkpoint is also written at the end of
\* every epoch.
EvalAndSave ==
    /\ pc = "eval"
    /\ events' = events \o <<Event("eval", epoch),
                              Event("save", os_path_join(config.model_path,
                                                         "bert_ner_model.pth"))>>
    /\ saved' = Append(saved,
                       [path |-> os_path_join(config.model_path,
                                              "bert_ner_model.pth"),
                        obj |-> [model_state_dict |-> params,
                                 config |-> config]])
    /\ params' = evaluator_eval(params)
    /\ training' \in BOOLEAN
    /\ pc' = "for_epoch"
    /\ UNCHANGED <<config, arg_config, total_batches, it, epoch, yielded,
                   index, train_loss, loss, grad, error, produced,
                   stepped_params>>

\* evaluator.eval(epoch): may leave the model in either mode
Eval ==
    /\ pc = "eval"
    /\ Record("eval", epoch)
    /\ params' = evaluator_eval(params)
    /\ training' \in BOOLEAN
    /\ pc' = "for_epoch"
    /\ UNCHANGED <<config, arg_config, total_batches, it, epoch, yielded,
                   index, train_loss, loss, grad, saved, error, produced,
                   stepped_params>>

\* Faulty variant of Save: the state dict was taken before training.
SaveInitialState ==
    /\ pc = "save"
    /\ LET model_path == os_path_join(config.model_path, "bert_ner_model.pth")
           obj == [model_state_dict |-> InitParams, config |-> config]
       IN /\ saved' = Append(saved, [path |-> model_path, obj |-> obj])
          /\ Record("save", model_path)
    /\ pc' = "done"
    /\ UNCHANGED <<config, arg_config, total_batches, it, epoch, yielded,
                   index, train_loss, loss, grad, params, training, error,
                   produced, stepped_params>>

\* torch.save({'model_state_dict': ..., 'config': config}, model_path);
\* logger.info; return
Save ==
    /\ pc = "save"
    /\ LET model_path == os_path_join(config.model_path, "bert_ner_model.pth")
           obj == [model_state_dict |-> params, config |-> config]
       IN /\ saved' = Append(saved, [path |-> model_path, obj |-> obj])
          /\ Record("save", model_path)
    /\ pc' = "done"
    /\ UNCHANGED <<config, arg_config, total_batches, it, epoch, yielded,
                   index, train_loss, loss, grad, params, training, error,
                   produced, stepped_params>>

Next ==
    \/ EpochBegin
    \/ LoopExit
    \/ NextBatch
    \/ BatchesDone
    \/ ZeroGrad
    \/ Forward
    \/ ForwardFail
    \/ Backward
    \/ BackwardFail
    \/ Step
    \/ StepFail
    \/ AppendLoss
    \/ LogCheckZeroDivision
    \/ LogBatchLoss
    \/ LogSkip
    \/ EpochMean
    \/ Eval
    \/ Save

Spec == Init /\ [][Next]_vars

\* ------------------------------------------------- reading the history
BatchOps == {"zero_grad", "forward", "backward", "step", "append"}
Sel(ops) == SelectSeq(events, LAMBDA ev : ev.op \in ops)
SameBatch(a, b) == a.epoch = b.epoch /\ a.index = b.index
IsPrev(k, op) ==
    /\ k > 1
    /\ events[k - 1].op = op
    /\ SameBatch(events[k - 1], events[k])
CheckpointPath == <<config.model_path, "bert_ner_model.pth">>

\* the arguments of the evaluator.eval calls so far, in order
EvalArgs == LET s == Sel({"eval"}) IN [k \in 1..Len(s) |-> s[k].arg]

\* ------------------------------------------------------------------ C1
\* C1: in a run with config["epoch"] = N >= 1 that no failure ends,
\* evaluator.eval is called exactly N times, the k-th call with argument k,
\* and each call eval(e) comes when all the batches of epoch e are done.
C1_EvalOncePerEpoch ==
    /\ \A k \in 1..Len(EvalArgs) : EvalArgs[k] = k
    /\ Len(EvalArgs) <= config.epoch
    /\ (pc = "done" /\ config.epoch >= 1) => Len(EvalArgs) = config.epoch
    /\ \A k \in DOMAIN events :
          events[k].op = "eval" =>
             Cardinality({j \in 1..k : /\ events[j].op = "append"
                                       /\ events[j].epoch = events[k].arg})
                = total_batches

C1_Witness ==
    /\ pc = "done"
    /\ config.epoch = 2
    /\ total_batches >= 2
    /\ EvalArgs = <<1, 2>>

\* ------------------------------------------------------------------ C2
\* C2: with config["epoch"] = 0 no zero_grad, forward, backward, step or
\* eval is ever made, nothing stops the run before the save, and the run
\* ends with the checkpoint written to <model_path>/bert_ner_model.pth.
C2_ZeroEpochs ==
    config.epoch = 0 =>
        /\ \A k \in DOMAIN events : events[k].op \notin BatchOps \cup {"eval"}
        /\ params = InitParams
        /\ pc \in {"for_epoch", "save", "done"}
        /\ pc # "done" => ENABLED Next
        /\ pc = "done" => /\ Len(saved) = 1
                          /\ saved[1].path = CheckpointPath

C2_Witness ==
    /\ config.epoch = 0
    /\ total_batches > 0
    /\ pc = "done"
    /\ Len(saved) = 1

\* ------------------------------------------------------------------ C3
\* C3: an epoch of exactly one batch raises no division-by-zero error in
\* the logging check.
C3_OneBatchNoZeroDivision ==
    total_batches = 1 => error # "ZeroDivisionError"

\* ------------------------------------------------------------------ C4
\* C4: a run that completes has written the checkpoint exactly once, as its
\* last call, right after the eval of the last epoch; until then nothing is
\* written.
C4_CheckpointOnce ==
    /\ pc # "done" => saved = <<>> /\ Sel({"save"}) = <<>>
    /\ pc = "done" =>
          /\ Len(saved) = 1
          /\ saved[1].path = CheckpointPath
          /\ Len(Sel({"save"})) = 1
          /\ events[Len(events)].op = "save"
          /\ config.epoch >= 1 =>
                /\ Len(events) > 1
                /\ events[Len(events) - 1].op = "eval"
                /\ events[Len(events) - 1].arg = config.epoch

C4_Witness ==
    /\ pc = "done"
    /\ config.epoch = 2
    /\ total_batches >= 2
    /\ Len(saved) = 1

\* ------------------------------------------------------------------ C5
\* C5: main never changes the configuration, and after it completes the
\* checkpoint holds the parameters as the last optimizer.step left them
\* (which are the in-memory parameters) and the configuration it was passed.
C5_CheckpointRoundTrip ==
    /\ config = arg_config
    /\ pc = "done" =>
          /\ saved # <<>>
          /\ saved[Len(saved)].obj.model_state_dict = stepped_params
          /\ saved[Len(saved)].obj.model_state_dict = params
          /\ saved[Len(saved)].obj.config = arg_config

C5_Witness ==
    /\ pc = "done"
    /\ Len(Sel({"step"})) >= 2
    /\ saved[1].obj.model_state_dict # InitParams
    /\ saved[1].obj.config = arg_config

\* ------------------------------------------------------------------ C6
\* C6: a failure of the forward pass, the backward pass or the optimizer
\* step ends the run there: it is the last thing that happens, that batch
\* was started once, no batch after it is started, eval is not called for
\* that epoch or a later one, and no checkpoint is written.
C6_FailureAborts ==
    \A k \in DOMAIN events :
        (events[k].op = "raise" /\ error \in {"forward", "backward", "step"}) =>
            /\ k = Len(events)
            /\ pc = "raised"
            /\ ~ ENABLED Next
            /\ saved = <<>>
            /\ \A j \in DOMAIN events :
                  /\ events[j].op = "eval" => events[j].arg < events[k].epoch
                  /\ events[j].op = "save" => FALSE
                  /\ events[j].op \in BatchOps =>
                        \/ events[j].epoch < events[k].epoch
                        \/ /\ events[j].epoch = events[k].epoch
                           /\ events[j].index <= events[k].index
            /\ Cardinality({j \in DOMAIN events :
                              /\ events[j].op = "zero_grad"
                              /\ SameBatch(events[j], events[k])}) = 1

C6_Witness ==
    /\ error = "backward"
    /\ pc = "raised"
    /\ epoch = 2
    /\ index = 1
    /\ events[Len(events)].op = "raise"

\* ------------------------------------------------------------------ C7
\* C7: each batch's calls come in the order zero_grad, forward, backward,
\* step, append, each right after the one before it and zero_grad first;
\* the gradient optimizer.step is about to use is the gradient of the
\* current batch's loss alone, and the value appended is that batch's loss.
C7_BatchStepOrder ==
    /\ \A k \in DOMAIN events :
        LET ev == events[k] IN
        /\ (ev.op = "zero_grad" /\ k > 1 /\ events[k - 1].op \in BatchOps) =>
              /\ events[k - 1].op = "append"
              /\ ~SameBatch(events[k - 1], ev)
        /\ ev.op = "forward" => IsPrev(k, "zero_grad")
        /\ ev.op = "backward" => IsPrev(k, "forward")
        /\ ev.op = "step" => IsPrev(k, "backward")
        /\ ev.op = "append" => IsPrev(k, "step")
    /\ pc = "step" =>
          /\ produced # <<>>
          /\ loss = produced[Len(produced)]
          /\ grad = loss
    /\ pc = "log_check" =>
          /\ train_loss # <<>>
          /\ train_loss[Len(train_loss)] = produced[Len(produced)]

C7_Witness ==
    /\ pc = "log_check"
    /\ epoch = 2
    /\ index = 1
    /\ events[Len(events)].op = "append"

\* ------------------------------------------------------------------ C8
\* the steps and evals of a full run of n epochs over b batches
Schedule(n, b) ==
    [k \in 1..(n * (b + 1)) |->
        LET e == ((k - 1) \div (b + 1)) + 1
            r == (k - 1) % (b + 1)
        IN IF r < b THEN <<"step", e, r>> ELSE <<"eval", e, -1>>]

StepsAndEvals ==
    LET s == Sel({"step", "eval"})
    IN [k \in 1..Len(s) |->
           IF s[k].op = "step" THEN <<"step", s[k].epoch, s[k].index>>
                               ELSE <<"eval", s[k].arg, -1>>]

\* C8: the optimizer steps and evals made so far are always the beginning
\* of: for e = 1..N, the steps of batches 0..B-1 in order, then eval(e);
\* a run that completes has made all of them, so N*B steps.
C8_EveryBatchOnceInOrder ==
    LET want == Schedule(config.epoch, total_batches)
        got == StepsAndEvals
    IN /\ Len(got) <= Len(want)
       /\ \A k \in 1..Len(got) : k <= Len(want) => got[k] = want[k]
       /\ pc = "done" =>
             /\ got = want
             /\ Len(Sel({"step"})) = config.epoch * total_batches

C8_Witness ==
    /\ pc = "done"
    /\ config.epoch = 2
    /\ total_batches = 3
    /\ Len(Sel({"step"})) = 6

\* ------------------------------------------------------------------ C9
\* C9: of the batches whose logging check is over, a "batch loss" line
\* follows exactly those whose index is 0 or a multiple of floor(B/2).
C9_LogCadence ==
    \A k \in DOMAIN events :
        (events[k].op = "append" /\ ~(pc = "log_check" /\ k = Len(events))) =>
            LET i == events[k].index
                h == total_batches \div 2
                logged == /\ k < Len(events)
                          /\ events[k + 1].op = "info_batch_loss"
                          /\ SameBatch(events[k + 1], events[k])
            IN logged <=> (i = 0 \/ (h # 0 /\ i % h = 0))

\* ----------------------------------------------------------------- C10
\* C10: when an epoch's mean is about to be logged, train_loss is exactly
\* the losses of that epoch's B batches in order; the mean then logged is
\* their sum over their number B (nan when B = 0); and every mean logged
\* is over B values.
C10_LossTracePerEpoch ==
    /\ pc = "mean" =>
          /\ train_loss = produced
          /\ Len(train_loss) = total_batches
    /\ pc = "eval" =>
          /\ events # <<>>
          /\ events[Len(events)].op = "info_average_loss"
          /\ events[Len(events)].epoch = epoch
          /\ events[Len(events)].arg.num = Sum(produced)
          /\ events[Len(events)].arg.den = Len(produced)
    /\ \A k \in DOMAIN events :
          events[k].op = "info_average_loss" =>
              events[k].arg.den = total_batches

C10_Witness ==
    /\ pc = "eval"
    /\ epoch = 2
    /\ total_batches >= 2
    /\ events[Len(events)].op = "info_average_loss"
    /\ events[Len(events)].arg.num > events[Len(events)].arg.den

====
